---- MODULE Spec2Model ----
(***************************************************************************)
(* PannerNode / PannerRenderer / HrtfState of src/node/panner.rs.          *)
(*                                                                         *)
(* Numbers.  The f32/f64 quantities of the renderer are modelled exactly:  *)
(* gains and (half) angles are rationals [n, d] in lowest terms, and the   *)
(* values of sin and cos are "surds" [s, q] standing for s * sqrt(q) with  *)
(* s in {-1, 0, 1} and q a rational, which is exact for the multiples of   *)
(* 30 and 45 degrees the model evaluates them at.  Rounding of f32 is not  *)
(* modelled.                                                               *)
(*                                                                         *)
(* Sample blocks are abstracted to their kind, "silent" or "sound", and    *)
(* their channel count.                                                    *)
(***************************************************************************)
EXTENDS Integers, Sequences, FiniteSets, TLC

----------------------------------------------------------------------------
(* Exact arithmetic *)

Abs(i) == IF i < 0 THEN -i ELSE i

RECURSIVE Gcd(_, _)
Gcd(a, b) == IF b = 0 THEN a ELSE Gcd(b, a % b)

\* the rational n/d in lowest terms with a positive denominator (d /= 0)
Rat(n, d) ==
    LET g == Gcd(Abs(n), Abs(d))
        s == IF d < 0 THEN -1 ELSE 1
    IN  [n |-> (s * n) \div g, d |-> (s * d) \div g]

RInt(i) == Rat(i, 1)
RAdd(a, b) == Rat(a.n * b.d + b.n * a.d, a.d * b.d)
RSub(a, b) == Rat(a.n * b.d - b.n * a.d, a.d * b.d)
RMul(a, b) == Rat(a.n * b.n, a.d * b.d)
RDiv(a, b) == Rat(a.n * b.d, a.d * b.n)
RLt(a, b) == a.n * b.d < b.n * a.d
RLe(a, b) == a.n * b.d <= b.n * a.d
RAbs(a) == [n |-> Abs(a.n), d |-> a.d]

\* s * sqrt(q): the exact value of a sine or cosine
Surd(s, q) == [s |-> IF q.n = 0 THEN 0 ELSE s, q |-> q]
SMul(a, b) == Surd(a.s * b.s, RMul(a.q, b.q))

\* cos^2 of a multiple of 15 degrees that is a multiple of 30 or of 45
CosSq(deg) ==
    LET m == deg % 180
    IN  CASE m = 0 -> Rat(1, 1)
          [] m \in {30, 150} -> Rat(3, 4)
          [] m \in {45, 135} -> Rat(1, 2)
          [] m \in {60, 120} -> Rat(1, 4)
          [] m = 90 -> Rat(0, 1)

\* f32::cos and f32::sin of an angle given in degrees
CosDeg(deg) ==
    LET m == deg % 360
    IN  Surd(IF m < 90 \/ m > 270 THEN 1 ELSE -1, CosSq(deg))

SinDeg(deg) == CosDeg(deg - 90)

----------------------------------------------------------------------------
(* State *)

VARIABLES
    options,          \* the PannerOptions the node was built from
    channel_config,   \* PannerNode.channel_config: [count, mode]
    cone_inner_angle, \* Arc<AtomicF64>, degrees; shared with the renderer
    cone_outer_angle, \* Arc<AtomicF64>, degrees; shared with the renderer
    cone_outer_gain,  \* Arc<AtomicF64>, linear gain; shared with the renderer
    call,             \* the last control-thread call: [op, val, ret]
    hrtf_state,       \* PannerRenderer.hrtf_state: <<>> (None) or <<HrtfState>>
    pc,               \* position of the render thread inside process
    quantum,          \* the arguments of the current (or last) process call
    local,            \* locals of the process call under way
    result            \* what the last completed process call produced

vars == <<options, channel_config, cone_inner_angle, cone_outer_angle,
          cone_outer_gain, call, hrtf_state, pc, quantum, local, result>>

node_vars == <<options, channel_config, cone_inner_angle, cone_outer_angle,
               cone_outer_gain>>
render_vars == <<hrtf_state, pc, quantum, local, result>>

\* RENDER_QUANTUM_SIZE of the crate: samples per render quantum
RENDER_QUANTUM_SIZE == 128

\* length the convolution library keeps of each ear's previous samples
\* (impulse response length - 1); a property of the loaded dataset
HrirPadLen == 3

\* largest argument tried for set_channel_count
MaxChannelArg == 3

\* positions are the corners of the rectangles k * ({0, 3} x {0, 4} x {0}),
\* k up to MaxScale
MaxScale == 2

ChannelCountModes == {"Max", "ClampedMax", "Explicit"}
PanningModels == {"EqualPower", "HRTF"}
DistanceModels == {"Linear", "Inverse", "Exponential"}

----------------------------------------------------------------------------
(* HrtfState *)

\* Vec3 of the convolution library
Vec3(x, y, z) == [x |-> x, y |-> y, z |-> z]

Zero == Surd(0, Rat(0, 1))
One == Surd(1, Rat(1, 1))

\* a Vec<f32> by its length and the kind of its contents
Buf(len, kind) == [len |-> len, kind |-> kind]

HrtfState_new ==
    [ output_interleaved |-> Buf(RENDER_QUANTUM_SIZE, "silent"),
      prev_sample_vector |-> Vec3(Zero, Zero, One),
      prev_left_samples  |-> Buf(0, "silent"),
      prev_right_samples |-> Buf(0, "silent"),
      prev_distance_gain |-> RInt(0) ]

----------------------------------------------------------------------------
(* Construction *)

NoCall == [op |-> "none", val |-> 0, ret |-> "ok"]

NoQuantum ==
    [ input |-> "silent", source_position |-> <<0, 0, 0>>,
      listener_position |-> <<0, 0, 0>>, azimuth |-> 0, elevation |-> 0,
      abs_angle |-> RInt(0) ]

NoLocal ==
    [ dist_gain |-> RInt(0), abs_inner_angle |-> RInt(0),
      abs_outer_angle |-> RInt(0) ]

NoResult ==
    [ valid |-> FALSE, ret |-> FALSE, channels |-> 0, kind |-> "silent",
      dist_gain |-> RInt(0), cone_gain |-> RInt(0), azimuth |-> 0,
      x |-> RInt(0), gain_l |-> Zero, gain_r |-> Zero, context |-> <<>> ]

\* PannerNode::new(context, opts)
PannerNode_new(opts) ==
    /\ options = opts
    /\ channel_config = [count |-> 2, mode |-> "ClampedMax"]
    /\ cone_inner_angle = opts.cone_inner_angle
    /\ cone_outer_angle = opts.cone_outer_angle
    /\ cone_outer_gain = opts.cone_outer_gain
    /\ hrtf_state = IF opts.panning_model = "HRTF" THEN <<HrtfState_new>> ELSE <<>>
    /\ call = NoCall
    /\ pc = "idle"
    /\ quantum = NoQuantum
    /\ local = NoLocal
    /\ result = NoResult

PannerOptions(pm, dm, rd, md, rf, ia, oa, og) ==
    [ panning_model |-> pm, distance_model |-> dm, ref_distance |-> rd,
      max_distance |-> md, rolloff_factor |-> rf, cone_inner_angle |-> ia,
      cone_outer_angle |-> oa, cone_outer_gain |-> og ]

\* PannerOptions::default()
PannerOptions_default ==
    PannerOptions("EqualPower", "Inverse", 1, 10000, 1, 360, 360, RInt(0))

----------------------------------------------------------------------------
(* Control thread: AudioNode for PannerNode *)

Called(op, val, ret) == call' = [op |-> op, val |-> val, ret |-> ret]

\* an off-by-one guard: three channels pass
CountRejected_off_by_one(v) == v > 3

\* the guard of set_channel_count: the counts it refuses
CountRejected(v) == v > 2

\* the guard of set_channel_count_mode: the modes it refuses
ModeRejected(v) == v = "Max"

set_channel_count(v) ==
    /\ IF CountRejected(v)
       THEN /\ Called("set_channel_count", v, "NotSupportedError")
            /\ UNCHANGED channel_config
       ELSE /\ channel_config' = [channel_config EXCEPT !.count = v]
            /\ Called("set_channel_count", v, "ok")
    /\ UNCHANGED <<options, cone_inner_angle, cone_outer_angle, cone_outer_gain>>
    /\ UNCHANGED render_vars

\* the store placed before the check: a refused mode is stored all the same
set_channel_count_mode_store_first(v) ==
    /\ channel_config' = [channel_config EXCEPT !.mode = v]
    /\ Called("set_channel_count_mode", v,
              IF ModeRejected(v) THEN "NotSupportedError" ELSE "ok")
    /\ UNCHANGED <<options, cone_inner_angle, cone_outer_angle, cone_outer_gain>>
    /\ UNCHANGED render_vars

set_channel_count_mode(v) ==
    /\ IF ModeRejected(v)
       THEN /\ Called("set_channel_count_mode", v, "NotSupportedError")
            /\ UNCHANGED channel_config
       ELSE /\ channel_config' = [channel_config EXCEPT !.mode = v]
            /\ Called("set_channel_count_mode", v, "ok")
    /\ UNCHANGED <<options, cone_inner_angle, cone_outer_angle, cone_outer_gain>>
    /\ UNCHANGED render_vars

----------------------------------------------------------------------------
(* Control thread: cone accessors and mutators *)

get_cone_inner_angle ==
    /\ Called("cone_inner_angle", cone_inner_angle, "ok")
    /\ UNCHANGED node_vars
    /\ UNCHANGED render_vars

set_cone_inner_angle(value) ==
    /\ cone_inner_angle' = value
    /\ Called("set_cone_inner_angle", value, "ok")
    /\ UNCHANGED <<options, channel_config, cone_outer_angle, cone_outer_gain>>
    /\ UNCHANGED render_vars

get_cone_outer_angle ==
    /\ Called("cone_outer_angle", cone_outer_angle, "ok")
    /\ UNCHANGED node_vars
    /\ UNCHANGED render_vars

\* a setter writing the neighbouring cell
set_cone_outer_angle_wrong_cell(value) ==
    /\ cone_inner_angle' = value
    /\ Called("set_cone_outer_angle", value, "ok")
    /\ UNCHANGED <<options, channel_config, cone_outer_angle, cone_outer_gain>>
    /\ UNCHANGED render_vars

set_cone_outer_angle(value) ==
    /\ cone_outer_angle' = value
    /\ Called("set_cone_outer_angle", value, "ok")
    /\ UNCHANGED <<options, channel_config, cone_inner_angle, cone_outer_gain>>
    /\ UNCHANGED render_vars

get_cone_outer_gain ==
    /\ Called("cone_outer_gain", cone_outer_gain, "ok")
    /\ UNCHANGED node_vars
    /\ UNCHANGED render_vars

set_cone_outer_gain(value) ==
    /\ cone_outer_gain' = value
    /\ Called("set_cone_outer_gain", value, "ok")
    /\ UNCHANGED <<options, channel_config, cone_inner_angle, cone_outer_angle>>
    /\ UNCHANGED render_vars

----------------------------------------------------------------------------
(* Render thread: the pieces of PannerRenderer::process *)

\* crate::spatial::distance: Euclidean distance of two points.  The points
\* of the model are chosen so that every distance is a whole number.
Distance(a, b) ==
    LET d2 == (a[1] - b[1]) * (a[1] - b[1]) + (a[2] - b[2]) * (a[2] - b[2])
              + (a[3] - b[3]) * (a[3] - b[3])
    IN  CHOOSE r \in 0..d2 : r * r = d2

\* the inverse model of the Web Audio specification, which takes the
\* reference distance and the rolloff factor into account
DistGain_configured(opts, distance) ==
    Rat(opts.ref_distance,
        opts.ref_distance
        + opts.rolloff_factor
          * ((IF distance < opts.ref_distance THEN opts.ref_distance ELSE distance)
             - opts.ref_distance))

\* the distance gain of process; the renderer holds no distance
\* configuration, opts is what the node was built from
DistGain(opts, distance) ==
    IF distance > 0 THEN RDiv(RInt(1), RInt(distance)) ELSE RInt(1)

\* cone_*_angle.load().abs() as f32 / 2.
HalfAngle(cell) == Rat(Abs(cell), 2)

\* the interpolation with its two ends exchanged
ConeGain_swapped(abs_inner_angle, abs_outer_angle, outer_gain, abs_angle) ==
    IF RLe(RInt(180), abs_inner_angle) /\ RLe(RInt(180), abs_outer_angle)
    THEN RInt(1)
    ELSE IF RLt(abs_angle, abs_inner_angle)
         THEN RInt(1)
         ELSE IF RLe(abs_outer_angle, abs_angle)
              THEN outer_gain
              ELSE LET x == RDiv(RSub(abs_angle, abs_inner_angle),
                                 RSub(abs_outer_angle, abs_inner_angle))
                   IN  RAdd(RMul(outer_gain, RSub(RInt(1), x)), x)

\* the cone gain of process; outer_gain is cone_outer_gain.load()
ConeGain(abs_inner_angle, abs_outer_angle, outer_gain, abs_angle) ==
    IF RLe(RInt(180), abs_inner_angle) /\ RLe(RInt(180), abs_outer_angle)
    THEN RInt(1)
    ELSE IF RLt(abs_angle, abs_inner_angle)
         THEN RInt(1)
         ELSE IF RLe(abs_outer_angle, abs_angle)
              THEN outer_gain
              ELSE LET x == RDiv(RSub(abs_angle, abs_inner_angle),
                                 RSub(abs_outer_angle, abs_inner_angle))
                   IN  RAdd(RSub(RInt(1), x), RMul(outer_gain, x))

Max2(a, b) == IF a < b THEN b ELSE a
Min2(a, b) == IF a < b THEN a ELSE b

\* the wrap without the clamp before it
FoldAzimuth_unclamped(azimuth) ==
    IF azimuth < -90 THEN -180 - azimuth
    ELSE IF azimuth > 90 THEN 180 - azimuth
    ELSE azimuth

\* EqualPower: clamp the azimuth to [-180, 180], then wrap to [-90, 90]
FoldAzimuth(azimuth) ==
    LET clamped == Min2(Max2(azimuth, -180), 180)
    IN  IF clamped < -90 THEN -180 - clamped
        ELSE IF clamped > 90 THEN 180 - clamped
        ELSE clamped

\* EqualPower: x and the gain of each ear
EqualPowerGains(azimuth) ==
    LET az == FoldAzimuth(azimuth)
        x == Rat(az + 90, 180)
        deg == (x.n * 90) \div x.d          \* x * PI / 2 in degrees
    IN  [azimuth |-> az, x |-> x, gain_l |-> CosDeg(deg), gain_r |-> SinDeg(deg)]

\* float_eq!(v, 0, abs <= 1E-6) of one component: |c| <= 10^-6, that is
\* c^2 = n/d <= 10^-12, that is n <= d / 10^12 rounded down
NearZero(c) == c.q.n <= (c.q.d \div 1000000) \div 1000000

\* HRTF: the unit direction of the source, with the fallback
ProjectedSource(azimuth, elevation) ==
    LET x == SMul(SinDeg(azimuth), CosDeg(elevation))
        z == SMul(CosDeg(azimuth), CosDeg(elevation))
        y == SinDeg(elevation)
    IN  IF NearZero(x) /\ NearZero(y) /\ NearZero(z)
        THEN <<Zero, Zero, One>>
        ELSE <<x, y, z>>

\* HrtfProcessor::process_samples of the convolution library, as
\* HrtfState::process uses it: the previous-sample buffers are brought to
\* the length the impulse responses need, the convolution of the previous
\* samples followed by the source is mixed into the output, and the trailing
\* samples of the source become the previous samples
process_samples(context) ==
    LET fit(b) == IF b.len /= HrirPadLen THEN Buf(HrirPadLen, "silent") ELSE b
        left == fit(context.prev_left_samples)
        right == fit(context.prev_right_samples)
        heard == "sound" \in {context.source, left.kind, right.kind}
    IN  [ output |-> Buf(context.output.len,
                         IF heard THEN "sound" ELSE context.output.kind),
          prev_left_samples |-> Buf(left.len, context.source),
          prev_right_samples |-> Buf(right.len, context.source) ]

\* the HrtfContext HrtfState::process builds
HrtfContext(hs, source, new_distance_gain, projected_source) ==
    [ source |-> source,
      output |-> hs.output_interleaved,
      new_sample_vector |->
          [x |-> projected_source[1], z |-> projected_source[2],
           y |-> projected_source[3]],
      prev_sample_vector |-> hs.prev_sample_vector,
      prev_left_samples |-> hs.prev_left_samples,
      prev_right_samples |-> hs.prev_right_samples,
      new_distance_gain |-> new_distance_gain,
      prev_distance_gain |-> hs.prev_distance_gain ]

\* the call without the update of the previous direction after it
HrtfState_process_stale_direction(hs, source, new_distance_gain, projected_source) ==
    LET context == HrtfContext(hs, source, new_distance_gain, projected_source)
        done == process_samples(context)
    IN  [ output_interleaved |-> done.output,
          prev_sample_vector |-> hs.prev_sample_vector,
          prev_left_samples |-> done.prev_left_samples,
          prev_right_samples |-> done.prev_right_samples,
          prev_distance_gain |-> new_distance_gain ]

\* HrtfState::process: the state it leaves
HrtfState_process(hs, source, new_distance_gain, projected_source) ==
    LET context == HrtfContext(hs, source, new_distance_gain, projected_source)
        done == process_samples(context)
    IN  [ output_interleaved |-> done.output,
          prev_sample_vector |-> context.new_sample_vector,
          prev_left_samples |-> done.prev_left_samples,
          prev_right_samples |-> done.prev_right_samples,
          prev_distance_gain |-> new_distance_gain ]

\* process when the input is silent: the early exit
SilentExit ==
    [ valid |-> TRUE, ret |-> FALSE, channels |-> 1, kind |-> "silent",
      dist_gain |-> RInt(0), cone_gain |-> RInt(0), azimuth |-> 0,
      x |-> RInt(0), gain_l |-> Zero, gain_r |-> Zero, context |-> <<>> ]

\* process from the up-mix to stereo to its end, on the block q, with the
\* values it computed or loaded on the way; hs is hrtf_state
Spatialize(hs, q, dist_gain, abs_inner_angle, abs_outer_angle, outer_gain) ==
    LET cone_gain == ConeGain(abs_inner_angle, abs_outer_angle, outer_gain,
                              q.abs_angle)
    IN  IF hs /= <<>>
        THEN LET new_distance_gain == RMul(cone_gain, dist_gain)
                 projected_source == ProjectedSource(q.azimuth, q.elevation)
                 context == HrtfContext(hs[1], q.input, new_distance_gain,
                                        projected_source)
                 after == HrtfState_process(hs[1], q.input, new_distance_gain,
                                            projected_source)
             IN  [ result |->
                       [ valid |-> TRUE, ret |-> FALSE, channels |-> 2,
                         kind |-> after.output_interleaved.kind,
                         dist_gain |-> dist_gain, cone_gain |-> cone_gain,
                         azimuth |-> q.azimuth, x |-> RInt(0),
                         gain_l |-> Zero, gain_r |-> Zero,
                         context |-> <<context>> ],
                   hrtf_state |->
                       << [after EXCEPT !.output_interleaved =
                               Buf(after.output_interleaved.len, "silent")] >> ]
        ELSE LET g == EqualPowerGains(q.azimuth)
             IN  [ result |->
                       [ valid |-> TRUE, ret |-> FALSE, channels |-> 2,
                         kind |-> q.input,
                         dist_gain |-> dist_gain, cone_gain |-> cone_gain,
                         azimuth |-> g.azimuth, x |-> g.x,
                         gain_l |-> g.gain_l, gain_r |-> g.gain_r,
                         context |-> <<>> ],
                   hrtf_state |-> hs ]

----------------------------------------------------------------------------
(* Render thread: PannerRenderer::process, one action per access to the    *)
(* cells it shares with the control thread                                 *)

\* from the entry to the load of cone_inner_angle; q is the block and the
\* geometry crate::spatial computes from the parameters and the listener
process_begin(q) ==
    /\ pc = "idle"
    /\ quantum' = q
    /\ IF q.input = "silent"
       THEN /\ result' = SilentExit
            /\ local' = NoLocal
            /\ pc' = "idle"
       ELSE /\ local' =
                [ dist_gain |-> DistGain(options,
                      Distance(q.source_position, q.listener_position)),
                  abs_inner_angle |-> HalfAngle(cone_inner_angle),
                  abs_outer_angle |-> RInt(0) ]
            /\ pc' = "load_outer"
            /\ result' = NoResult
    /\ UNCHANGED <<node_vars, call, hrtf_state>>

\* the load of cone_outer_angle
process_load_outer ==
    /\ pc = "load_outer"
    /\ local' = [local EXCEPT !.abs_outer_angle = HalfAngle(cone_outer_angle)]
    /\ pc' = "finish"
    /\ UNCHANGED <<node_vars, call, hrtf_state, quantum, result>>

\* from the cone gain (with the load of cone_outer_gain) to the return
process_finish ==
    /\ pc = "finish"
    /\ LET done == Spatialize(hrtf_state, quantum, local.dist_gain,
                              local.abs_inner_angle, local.abs_outer_angle,
                              cone_outer_gain)
       IN  /\ result' = done.result
           /\ hrtf_state' = done.hrtf_state
    /\ local' = NoLocal
    /\ pc' = "idle"
    /\ UNCHANGED <<node_vars, call, quantum>>

Quantum(input, sp, lp, az, el, angle) ==
    [ input |-> input, source_position |-> sp, listener_position |-> lp,
      azimuth |-> az, elevation |-> el, abs_angle |-> angle ]

----------------------------------------------------------------------------
(* Inputs *)

Blocks == {"silent", "sound"}

Corners(k) == {<<3 * k * i, 4 * k * j, 0>> : i \in 0..1, j \in 0..1}

\* cone angles in degrees and cone gains an application may configure
ConeAngles == {-120, 60, 120, 180, 360}
ConeGains == {RInt(0), Rat(1, 2), RInt(2)}

\* angles between the source's orientation and the listener: 0 to 180 by 15
AbsAngles == {RInt(15 * k) : k \in 0..12}

----------------------------------------------------------------------------
(* Spec: control thread and render thread of one node, interleaved *)

Init ==
    \E pm \in PanningModels :
        PannerNode_new(PannerOptions(pm, "Inverse", 1, 10000, 1, 360, 360, RInt(0)))

Next ==
    \/ \E v \in 0..MaxChannelArg : set_channel_count(v)
    \/ \E v \in ChannelCountModes : set_channel_count_mode(v)
    \/ get_cone_inner_angle
    \/ \E value \in {60, 360} : set_cone_inner_angle(value)
    \/ get_cone_outer_angle
    \/ \E value \in {120, 360} : set_cone_outer_angle(value)
    \/ get_cone_outer_gain
    \/ \E value \in {RInt(0), Rat(1, 2)} : set_cone_outer_gain(value)
    \/ \E input \in Blocks, angle \in {RInt(45), RInt(90)} :
           process_begin(Quantum(input, <<3, 0, 0>>, <<0, 0, 0>>, 90, 0, angle))
    \/ process_load_outer
    \/ process_finish

Spec == Init /\ [][Next]_vars

----------------------------------------------------------------------------
(* SpecRender: the render thread alone, block after block *)

InitRender ==
    \E pm \in PanningModels, cone \in {<<360, 360, RInt(0)>>, <<60, 120, Rat(1, 2)>>} :
        PannerNode_new(PannerOptions(pm, "Inverse", 1, 10000, 1,
                                     cone[1], cone[2], cone[3]))

NextRender ==
    \/ \E input \in Blocks, sp \in {<<0, 0, 0>>, <<3, 0, 0>>},
          az \in {-90, 0, 90, 180}, el \in {-90, 0, 90},
          angle \in {RInt(0), RInt(45)} :
           process_begin(Quantum(input, sp, <<0, 0, 0>>, az, el, angle))
    \/ process_load_outer
    \/ process_finish

SpecRender == InitRender /\ [][NextRender]_vars

----------------------------------------------------------------------------
(* SpecDistance: every distance configuration, sources and listeners apart *)

InitDistance ==
    \E pm \in PanningModels, dm \in DistanceModels, rd \in {1, 2},
       md \in {1, 10000}, rf \in {0, 1} :
        PannerNode_new(PannerOptions(pm, dm, rd, md, rf, 360, 360, RInt(0)))

NextDistance ==
    \/ \E input \in Blocks, k \in 1..MaxScale :
         \E sp \in Corners(k), lp \in Corners(k) :
           process_begin(Quantum(input, sp, lp, 0, 0, RInt(0)))
    \/ process_load_outer
    \/ process_finish

SpecDistance == InitDistance /\ [][NextDistance]_vars

----------------------------------------------------------------------------
(* SpecCone: every cone configuration, every angle to the listener *)

InitCone ==
    \E pm \in PanningModels, ia \in ConeAngles, oa \in ConeAngles, og \in ConeGains :
        PannerNode_new(PannerOptions(pm, "Inverse", 1, 10000, 1, ia, oa, og))

NextCone ==
    \/ \E input \in Blocks, angle \in AbsAngles :
           process_begin(Quantum(input, <<3, 0, 0>>, <<0, 0, 0>>, 0, 0, angle))
    \/ process_load_outer
    \/ process_finish

SpecCone == InitCone /\ [][NextCone]_vars

----------------------------------------------------------------------------
(* SpecPan: the EqualPower model over azimuths in and out of [-180, 180] *)

Azimuths == {-360, -270, -180, -150, -90, -30, 0, 30, 90, 150, 180, 270, 360}

InitPan ==
    PannerNode_new(PannerOptions_default)

NextPan ==
    \/ \E input \in Blocks, az \in Azimuths, sp \in Corners(1), lp \in Corners(1) :
           process_begin(Quantum(input, sp, lp, az, 0, RInt(0)))
    \/ process_load_outer
    \/ process_finish

SpecPan == InitPan /\ [][NextPan]_vars

----------------------------------------------------------------------------
(* Claims *)

\* C1: after construction and after any sequence of set_channel_count and
\* set_channel_count_mode calls, accepted or rejected, the channel count is
\* at most 2 and the channel-count mode is not Max.
C1_ChannelConfigInvariant ==
    /\ channel_config.count <= 2
    /\ channel_config.mode /= "Max"

\* accepted calls changed both fields, and the last call was a rejected one
C1_Witness ==
    /\ call.op = "set_channel_count"
    /\ call.ret = "NotSupportedError"
    /\ channel_config = [count |-> 1, mode |-> "Explicit"]

\* a step of the control thread that calls op
IsCall(op) == call'.op = op /\ call' /= call

\* C2: set_channel_count(n) with n > 2 and set_channel_count_mode(Max) fail
\* with NotSupportedError and leave the channel count, the mode and all the
\* rest of the node's state, cone scalars included, as they were.
C2_RejectedCallChangesNothing ==
    [][ /\ (IsCall("set_channel_count") /\ call'.val > 2) =>
               /\ call'.ret = "NotSupportedError"
               /\ UNCHANGED <<node_vars, render_vars>>
        /\ (IsCall("set_channel_count_mode") /\ call'.val = "Max") =>
               /\ call'.ret = "NotSupportedError"
               /\ UNCHANGED <<node_vars, render_vars>> ]_vars

\* a rejected mode on a node whose count, mode and cone are no longer the
\* ones it was built with
C2_Witness ==
    /\ call = [op |-> "set_channel_count_mode", val |-> "Max",
               ret |-> "NotSupportedError"]
    /\ channel_config = [count |-> 1, mode |-> "Explicit"]
    /\ cone_inner_angle = 60
    /\ cone_outer_gain = Rat(1, 2)

\* C8: under any interleaving of the cone setters with process, a cone cell
\* changes only by its own setter and then holds the value set, the other
\* two cells keep theirs, a getter returns the value of its cell, and each
\* load of process reads the value its cell holds at that moment.
C8_ConeCellsAreIndependentAtomics ==
    [][ /\ IsCall("set_cone_inner_angle") => cone_inner_angle' = call'.val
        /\ IsCall("set_cone_outer_angle") => cone_outer_angle' = call'.val
        /\ IsCall("set_cone_outer_gain") => cone_outer_gain' = call'.val
        /\ cone_inner_angle' /= cone_inner_angle => IsCall("set_cone_inner_angle")
        /\ cone_outer_angle' /= cone_outer_angle => IsCall("set_cone_outer_angle")
        /\ cone_outer_gain' /= cone_outer_gain => IsCall("set_cone_outer_gain")
        /\ IsCall("cone_inner_angle") => call'.val = cone_inner_angle
        /\ IsCall("cone_outer_angle") => call'.val = cone_outer_angle
        /\ IsCall("cone_outer_gain") => call'.val = cone_outer_gain
        /\ (pc = "idle" /\ pc' = "load_outer") =>
               local'.abs_inner_angle = Rat(Abs(cone_inner_angle), 2)
        /\ (pc = "load_outer" /\ pc' = "finish") =>
               local'.abs_outer_angle = Rat(Abs(cone_outer_angle), 2)
        /\ (pc = "finish" /\ pc' = "idle"
            /\ ~(RLe(RInt(180), local.abs_inner_angle)
                 /\ RLe(RInt(180), local.abs_outer_angle))
            /\ RLe(local.abs_outer_angle, quantum.abs_angle)
            /\ ~RLt(quantum.abs_angle, local.abs_inner_angle)) =>
               result'.cone_gain = cone_outer_gain ]_vars

\* process loaded the inner angle the node was built with, the control
\* thread then stored new inner and outer angles, and process loaded the
\* new outer angle
C8_Witness ==
    /\ pc = "finish"
    /\ local.abs_inner_angle = RInt(180)
    /\ local.abs_outer_angle = RInt(60)
    /\ cone_inner_angle = 60
    /\ cone_outer_angle = 120

\* a process call has returned and result is what it produced
Returned == pc = "idle" /\ result.valid

\* C3: under HRTF, process returns true on the silent quanta that follow a
\* convolved non-silent block (the previous samples the convolution keeps
\* are still sound); under EqualPower it returns false on every call.
C3_KeepAliveWhileTailRings ==
    Returned =>
        IF hrtf_state /= <<>>
        THEN (quantum.input = "silent"
              /\ hrtf_state[1].prev_left_samples.kind = "sound") => result.ret = TRUE
        ELSE result.ret = FALSE

\* process from the up-mix on, run on block q from the present state
FullPath(q) ==
    Spatialize(hrtf_state, q,
               DistGain(options, Distance(q.source_position, q.listener_position)),
               HalfAngle(cone_inner_angle), HalfAngle(cone_outer_angle),
               cone_outer_gain)

\* C4: on every silent block, from every state and for both models, the
\* early exit gives the output block (samples and channel count) and leaves
\* the renderer state that the full path would on that block.
C4_SilenceExitEqualsFullPath ==
    [][ (pc = "idle" /\ pc' = "idle" /\ quantum'.input = "silent") =>
            /\ result'.kind = FullPath(quantum').result.kind
            /\ result'.channels = FullPath(quantum').result.channels
            /\ hrtf_state' = FullPath(quantum').hrtf_state ]_vars

\* C5: for every source and listener position and every distance_model,
\* ref_distance, max_distance and rolloff_factor, the distance gain of
\* process times the distance is 1 when the distance is positive, and the
\* gain is 1 when the distance is 0.
C5_DistanceGainIsInverse ==
    (Returned /\ quantum.input = "sound") =>
        LET distance == Distance(quantum.source_position, quantum.listener_position)
        IN  IF distance > 0
            THEN RMul(result.dist_gain, RInt(distance)) = RInt(1)
            ELSE result.dist_gain = RInt(1)

\* a node configured for the linear model with a reference distance of 2 and
\* a maximal distance of 1 processed a block from a source 10 away
C5_Witness ==
    /\ Returned
    /\ quantum.input = "sound"
    /\ options.distance_model = "Linear"
    /\ options.ref_distance = 2
    /\ options.max_distance = 1
    /\ options.rolloff_factor = 0
    /\ Distance(quantum.source_position, quantum.listener_position) = 10
    /\ result.dist_gain = Rat(1, 10)

\* the cone gain of a returned call against the cone the node holds, for the
\* configurations with an active cone that satisfy ordered(inner, outer):
\* 1 at half-inner, the outer gain at half-outer, and from the angle of the
\* block to any larger angle up to half-outer the gain moves towards the
\* outer gain by no more than its share of the way
ConeClaim(ordered(_, _)) ==
    (Returned /\ quantum.input = "sound") =>
        LET inner == Rat(Abs(cone_inner_angle), 2)
            outer == Rat(Abs(cone_outer_angle), 2)
            g == cone_outer_gain
            a == quantum.abs_angle
            got == result.cone_gain
            active == ~(RLe(RInt(180), inner) /\ RLe(RInt(180), outer))
        IN  (active /\ ordered(inner, outer)) =>
                /\ a = inner => got = RInt(1)
                /\ a = outer => got = g
                /\ \A b \in AbsAngles :
                       (RLe(inner, a) /\ RLe(a, b) /\ RLe(b, outer)) =>
                           LET at_b == ConeGain(inner, outer, g, b)
                           IN  /\ RLe(RInt(1), g) => RLe(got, at_b) /\ RLe(at_b, g)
                               /\ RLe(g, RInt(1)) => RLe(at_b, got) /\ RLe(g, at_b)
                               /\ RLe(RMul(RAbs(RSub(at_b, got)), RSub(outer, inner)),
                                      RMul(RAbs(RSub(g, RInt(1))), RSub(b, a)))

\* C6 as claimed: for every active cone with half-inner <= half-outer, the
\* gain is 1 at half-inner, the outer gain at half-outer, and monotonic
\* without a jump between the two.
C6_ConeGainInnerLeOuter ==
    ConeClaim(LAMBDA inner, outer : RLe(inner, outer))

\* C6 amended: the same for every active cone with half-inner < half-outer.
C6_ConeGainInnerLtOuter ==
    ConeClaim(LAMBDA inner, outer : RLt(inner, outer))

\* the listener sits exactly on the inner cone of a 60/120 cone
C6_Witness ==
    /\ Returned
    /\ quantum.input = "sound"
    /\ cone_inner_angle = 60
    /\ cone_outer_angle = 120
    /\ cone_outer_gain = Rat(1, 2)
    /\ quantum.abs_angle = RInt(30)
    /\ result.cone_gain = RInt(1)

C9_DirectionHandedToLibrary ==
    (Returned /\ result.context /= <<>>) =>
        LET x == SMul(SinDeg(quantum.azimuth), CosDeg(quantum.elevation))
            y == SinDeg(quantum.elevation)
            z == SMul(CosDeg(quantum.azimuth), CosDeg(quantum.elevation))
        IN  result.context[1].new_sample_vector =
                IF NearZero(x) /\ NearZero(y) /\ NearZero(z)
                THEN HrtfState_new.prev_sample_vector
                ELSE Vec3(x, y, z)

BufferLengths(hs) ==
    <<hs.output_interleaved.len, hs.prev_left_samples.len,
      hs.prev_right_samples.len>>

\* C10: every buffer of HrtfState has its final length when HrtfState::new
\* returns: no call of process, the first included, changes a length.
C10_BuffersKeepTheirLength ==
    [][ hrtf_state /= <<>> =>
            BufferLengths(hrtf_state'[1]) = BufferLengths(hrtf_state[1]) ]_vars

\* the direction and gain HrtfState keeps for the next convolved block
Previous(hs) == <<hs.prev_sample_vector, hs.prev_distance_gain>>

\* C11: on an HRTF panner the previous direction and gain handed to the
\* library on a convolved block are the new direction and the new gain
\* (cone_gain * dist_gain) of the most recent earlier convolved block, silent
\* blocks leave them unchanged, and on the first convolved block they are
\* (0, 0, 1) and 0.  Stated step by step: the node starts with (0, 0, 1) and
\* 0 kept; a convolved block is handed what is kept and leaves its own new
\* direction and gain kept; every other step keeps what is kept.
C11_PreviousIsLastConvolved ==
    /\ hrtf_state /= <<>> =>
           Previous(hrtf_state[1]) = <<Vec3(Zero, Zero, One), RInt(0)>>
    /\ [][ hrtf_state /= <<>> =>
               IF pc = "finish" /\ pc' = "idle"
               THEN /\ result'.context /= <<>>
                    /\ result'.context[1].prev_sample_vector =
                           hrtf_state[1].prev_sample_vector
                    /\ result'.context[1].prev_distance_gain =
                           hrtf_state[1].prev_distance_gain
                    /\ result'.context[1].new_distance_gain =
                           RMul(result'.cone_gain, result'.dist_gain)
                    /\ Previous(hrtf_state'[1]) =
                           <<result'.context[1].new_sample_vector,
                             result'.context[1].new_distance_gain>>
               ELSE /\ Previous(hrtf_state'[1]) = Previous(hrtf_state[1])
                    /\ (pc = "idle" /\ pc' = "idle") => result'.context = <<>> ]_vars

\* a convolved block, not the first, whose previous direction and gain
\* differ from the initial ones and from its own new ones
C11_Witness ==
    /\ Returned
    /\ result.context /= <<>>
    /\ result.context[1].prev_left_samples.len = HrirPadLen
    /\ result.context[1].prev_sample_vector = Vec3(One, Zero, Zero)
    /\ result.context[1].prev_distance_gain = Rat(1, 4)
    /\ result.context[1].new_sample_vector = Vec3(Zero, One, Zero)
    /\ result.context[1].new_distance_gain = RInt(1)

====
